---- MODULE Spec2Model ----
(***************************************************************************)
(* Model of src/modules/config/blip3o_config.py: the three configuration   *)
(* records (BLIP3oDiTConfig, FlowMatchingConfig, TrainingConfig), their    *)
(* construction-time validation, the factory and preset functions and the  *)
(* cross-configuration validation.                                         *)
(*                                                                         *)
(* Python floats are fixed-point integers: Frac(n, d) is n/d in units of   *)
(* 1e-5, so 1.0 is 100000 and the source's smallest literal, 1e-5, is 1.   *)
(* Optional[...] parameters are sequences: None is <<>>, a value v is      *)
(* <<v>>.  A keyword-argument mapping (kwargs) is a function from the      *)
(* supplied names to their values.  An error message is a sequence: the    *)
(* text, followed by the values the f-string interpolates.                 *)
(***************************************************************************)
EXTENDS Integers, Sequences, FiniteSets, TLC

VARIABLES
    presets,    \* module-level BLIP3O_* singletons: preset name -> record
    own,        \* the record the caller built last (Optional), not a preset
    model,      \* which architecture record the caller holds: "None", "own" or a preset name
    flow,       \* the FlowMatchingConfig the caller holds (Optional)
    training,   \* the TrainingConfig the caller holds (Optional)
    last,       \* the most recent call: op, args, status, error, value, rep
    nassign     \* number of attribute assignments the caller has made

vars == <<presets, own, model, flow, training, last, nassign>>

\* ---------------------------------------------------------------- bounds
MaxOverrides == 2
MaxAssign == 1

\* ---------------------------------------------------------------- values
Frac(n, d) == (n * 100000) \div d

None == <<>>
Some(v) == <<v>>
Ok == <<>>

\* Keyword arguments d overridden by kw (dict.update / {**d, **kw}).
Merge(d, kw) == [k \in (DOMAIN d) \cup (DOMAIN kw) |-> IF k \in DOMAIN kw THEN kw[k] ELSE d[k]]

\* ------------------------------------------------------- BLIP3oDiTConfig
\* Defaults of the constructor's parameters.
BLIP3oDiTConfigDefaults ==
    [ input_size |-> 16, patch_size |-> 1, in_channels |-> 1024,
      dim |-> 768, n_layers |-> 16, n_heads |-> 12, n_kv_heads |-> None,
      qk_norm |-> TRUE, norm_eps |-> Frac(1, 100000),
      eva_embedding_size |-> 4096,
      mlp_hidden_dim |-> 2048, mlp_num_layers |-> 3,
      mlp_dropout |-> Frac(1, 10), mlp_activation |-> "gelu",
      learn_sigma |-> FALSE, _gradient_checkpointing |-> TRUE,
      rope_base |-> Frac(10000, 1), rope_scaling |-> None,
      initializer_range |-> Frac(2, 100),
      use_flash_attention |-> FALSE, attention_dropout |-> Frac(0, 1),
      intermediate_size |-> None, hidden_dropout |-> Frac(0, 1),
      max_position_embeddings |-> 1024 ]

ArchFields == DOMAIN BLIP3oDiTConfigDefaults

\* The value a constructor parameter is bound to for a constructor call with keywords kw.
ArchArg(kw, k) == IF k \in DOMAIN kw THEN kw[k] ELSE BLIP3oDiTConfigDefaults[k]

\* The attributes __init__ stores, before validation.
BLIP3oDiTConfig(kw) ==
    LET n_heads == ArchArg(kw, "n_heads")
        dim == ArchArg(kw, "dim")
        n_kv_heads == IF ArchArg(kw, "n_kv_heads") = None
                      THEN n_heads ELSE ArchArg(kw, "n_kv_heads")[1]
        intermediate_size == IF ArchArg(kw, "intermediate_size") = None
                             THEN 4 * dim ELSE ArchArg(kw, "intermediate_size")[1]
    IN  [ input_size |-> ArchArg(kw, "input_size"),
          patch_size |-> ArchArg(kw, "patch_size"),
          in_channels |-> ArchArg(kw, "in_channels"),
          dim |-> dim,
          n_layers |-> ArchArg(kw, "n_layers"),
          n_heads |-> n_heads,
          n_kv_heads |-> n_kv_heads,
          qk_norm |-> ArchArg(kw, "qk_norm"),
          norm_eps |-> ArchArg(kw, "norm_eps"),
          eva_embedding_size |-> ArchArg(kw, "eva_embedding_size"),
          mlp_hidden_dim |-> ArchArg(kw, "mlp_hidden_dim"),
          mlp_num_layers |-> ArchArg(kw, "mlp_num_layers"),
          mlp_dropout |-> ArchArg(kw, "mlp_dropout"),
          mlp_activation |-> ArchArg(kw, "mlp_activation"),
          learn_sigma |-> ArchArg(kw, "learn_sigma"),
          _gradient_checkpointing |-> ArchArg(kw, "_gradient_checkpointing"),
          rope_base |-> ArchArg(kw, "rope_base"),
          rope_scaling |-> ArchArg(kw, "rope_scaling"),
          initializer_range |-> ArchArg(kw, "initializer_range"),
          use_flash_attention |-> ArchArg(kw, "use_flash_attention"),
          attention_dropout |-> ArchArg(kw, "attention_dropout"),
          intermediate_size |-> intermediate_size,
          hidden_dropout |-> ArchArg(kw, "hidden_dropout"),
          max_position_embeddings |-> ArchArg(kw, "max_position_embeddings") ]

\* Variant: the quotient is tested instead of the remainder.
DivisibleByHeads_Quotient(c) == c.dim \div c.n_heads > 0

\* assert self.dim % self.n_heads == 0 (reached only with n_heads > 0).
DivisibleByHeads(c) == c.dim % c.n_heads = 0

\* The activations _validate_config accepts.
MlpActivations == {"gelu", "relu", "silu"}

\* The message of the first assertion that fails on record c, Ok if none does.
_validate_config(c) ==
    IF ~(c.dim > 0) THEN <<"Model dimension must be positive">>
    ELSE IF ~(c.n_layers > 0) THEN <<"Number of layers must be positive">>
    ELSE IF ~(c.n_heads > 0) THEN <<"Number of heads must be positive">>
    ELSE IF ~(c.n_kv_heads > 0) THEN <<"Number of key-value heads must be positive">>
    ELSE IF ~DivisibleByHeads(c) THEN <<"dim must be divisible by n_heads", c.dim, c.n_heads>>
    ELSE IF ~(c.input_size > 0) THEN <<"Input size must be positive">>
    ELSE IF ~(c.patch_size > 0) THEN <<"Patch size must be positive">>
    ELSE IF ~(c.in_channels > 0) THEN <<"Input channels must be positive">>
    ELSE IF ~(c.eva_embedding_size > 0) THEN <<"EVA embedding size must be positive">>
    ELSE IF ~(c.mlp_hidden_dim > 0) THEN <<"MLP hidden dimension must be positive">>
    ELSE IF ~(c.mlp_num_layers > 0) THEN <<"MLP number of layers must be positive">>
    ELSE IF ~(Frac(0, 1) <= c.mlp_dropout /\ c.mlp_dropout <= Frac(1, 1))
         THEN <<"MLP dropout must be between 0 and 1">>
    ELSE IF ~(c.mlp_activation \in MlpActivations)
         THEN <<"Unknown activation", c.mlp_activation>>
    ELSE IF ~(c.learn_sigma = FALSE)
         THEN <<"BLIP3-o uses flow matching, learn_sigma must be False">>
    ELSE IF ~(c.in_channels = 1024) THEN <<"CLIP embedding dimension must be 1024">>
    ELSE IF ~(c.eva_embedding_size = 4096) THEN <<"EVA-CLIP dimension must be 4096">>
    ELSE IF ~(c.patch_size = 1) THEN <<"Features are pre-tokenized, patch_size must be 1">>
    ELSE IF ~(c.input_size = 16) THEN <<"Input size must be 16 for 256 tokens">>
    ELSE Ok

get_num_tokens(c) == c.input_size * c.input_size

\* Variant: the operands of the division exchanged.
get_head_dim_Swapped(c) == c.n_heads \div c.dim

get_head_dim(c) == c.dim \div c.n_heads

\* ---------------------------------------------------- FlowMatchingConfig
\* Field defaults of the dataclass.
FlowMatchingConfigDefaults ==
    [ sigma_min |-> Frac(1, 10000), sigma_max |-> Frac(1, 1),
      prediction_type |-> "v_prediction", schedule_type |-> "linear",
      clip_dim |-> 1024, eva_dim |-> 4096,
      regularization_weight |-> Frac(1, 100),
      alignment_loss_weight |-> Frac(1, 10),
      temporal_loss_weight |-> Frac(5, 100),
      use_progressive_training |-> TRUE,
      min_timestep |-> Frac(1, 1000), max_timestep |-> Frac(999, 1000) ]

\* The fields the generated __init__ stores: defaults overridden by kw.
FlowMatchingConfig(kw) == Merge(FlowMatchingConfigDefaults, kw)

\* The enumerations __post_init__ accepts.
PredictionTypes == {"v_prediction", "epsilon"}

\* Variant: one more schedule accepted.
ScheduleTypes_Extra == {"linear", "cosine", "sigmoid", "exponential"}

ScheduleTypes == {"linear", "cosine", "sigmoid"}

\* Variant: sigma_min <= sigma_max instead of sigma_min < sigma_max.
SigmaRangeValid_NonStrict(f) ==
    0 <= f.sigma_min /\ f.sigma_min <= f.sigma_max /\ f.sigma_max <= Frac(10, 1)

\* assert 0 <= self.sigma_min < self.sigma_max <= 10.0
SigmaRangeValid(f) ==
    0 <= f.sigma_min /\ f.sigma_min < f.sigma_max /\ f.sigma_max <= Frac(10, 1)

\* assert 0 <= self.min_timestep < self.max_timestep <= 1.0
TimestepRangeValid(f) ==
    0 <= f.min_timestep /\ f.min_timestep < f.max_timestep /\ f.max_timestep <= Frac(1, 1)

\* FlowMatchingConfig.__post_init__: the first failing assertion, Ok if none.
FlowPostInit(f) ==
    IF ~(f.prediction_type \in PredictionTypes)
         THEN <<"Invalid prediction type", f.prediction_type>>
    ELSE IF ~(f.schedule_type \in ScheduleTypes)
         THEN <<"Invalid schedule type", f.schedule_type>>
    ELSE IF ~SigmaRangeValid(f)
         THEN <<"Invalid sigma range", f.sigma_min, f.sigma_max>>
    ELSE IF ~(f.clip_dim > 0) THEN <<"CLIP dimension must be positive">>
    ELSE IF ~(f.eva_dim > 0) THEN <<"EVA dimension must be positive">>
    ELSE IF ~TimestepRangeValid(f)
         THEN <<"Invalid timestep range">>
    ELSE Ok

\* -------------------------------------------------------- TrainingConfig
TrainingConfigDefaults ==
    [ num_train_epochs |-> 8, per_device_train_batch_size |-> 6,
      per_device_eval_batch_size |-> 4,
      learning_rate |-> Frac(5, 100000), weight_decay |-> Frac(1, 100),
      lr_scheduler_type |-> "cosine", warmup_ratio |-> Frac(5, 100),
      warmup_steps |-> 100,
      gradient_accumulation_steps |-> 6, max_grad_norm |-> Frac(1, 1),
      fp16 |-> TRUE, bf16 |-> FALSE,
      logging_steps |-> 50, eval_steps |-> 250, save_steps |-> 500,
      dataloader_num_workers |-> 4, dataloader_pin_memory |-> TRUE,
      remove_unused_columns |-> FALSE,
      load_best_model_at_end |-> TRUE,
      metric_for_best_model |-> "eval_global_cosine_mean",
      greater_is_better |-> TRUE,
      patch_loss_weight |-> Frac(1, 1), global_loss_weight |-> Frac(2, 1),
      flow_matching_loss_weight |-> Frac(1, 1),
      use_cosine_similarity |-> FALSE ]

TrainingConfig(kw) == Merge(TrainingConfigDefaults, kw)

\* TrainingConfig.__post_init__: the first failing assertion, Ok if none.
TrainingPostInit(t) ==
    IF ~(t.num_train_epochs > 0) THEN <<"Number of epochs must be positive">>
    ELSE IF ~(t.per_device_train_batch_size > 0) THEN <<"Batch size must be positive">>
    ELSE IF ~(t.learning_rate > 0) THEN <<"Learning rate must be positive">>
    ELSE IF ~(0 <= t.weight_decay /\ t.weight_decay <= Frac(1, 1))
         THEN <<"Weight decay must be between 0 and 1">>
    ELSE IF ~(t.gradient_accumulation_steps > 0)
         THEN <<"Gradient accumulation steps must be positive">>
    ELSE Ok

\* ------------------------------------------------------------- factories
get_default_blip3o_config == BLIP3oDiTConfig(<<>>)

get_small_blip3o_config ==
    BLIP3oDiTConfig([dim |-> 512, n_layers |-> 8, n_heads |-> 8,
                     mlp_hidden_dim |-> 1024, mlp_num_layers |-> 2])

get_large_blip3o_config ==
    BLIP3oDiTConfig([dim |-> 1024, n_layers |-> 24, n_heads |-> 16,
                     mlp_hidden_dim |-> 4096, mlp_num_layers |-> 4])

\* The dual-supervision keys both branches of get_dual_supervision_config set.
DualSupervisionParams ==
    [ mlp_hidden_dim |-> 2048, mlp_num_layers |-> 3,
      mlp_dropout |-> Frac(1, 10), _gradient_checkpointing |-> TRUE ]

\* config_dict as read off base_config, one key per constructor parameter.
BaseConfigDict(b) ==
    [ input_size |-> b.input_size, patch_size |-> b.patch_size,
      in_channels |-> b.in_channels, dim |-> b.dim,
      n_layers |-> b.n_layers, n_heads |-> b.n_heads,
      n_kv_heads |-> Some(b.n_kv_heads),
      qk_norm |-> b.qk_norm, norm_eps |-> b.norm_eps,
      eva_embedding_size |-> b.eva_embedding_size,
      mlp_hidden_dim |-> b.mlp_hidden_dim, mlp_num_layers |-> b.mlp_num_layers,
      mlp_dropout |-> b.mlp_dropout, mlp_activation |-> b.mlp_activation,
      learn_sigma |-> b.learn_sigma,
      _gradient_checkpointing |-> b._gradient_checkpointing,
      rope_base |-> b.rope_base, rope_scaling |-> b.rope_scaling,
      initializer_range |-> b.initializer_range,
      use_flash_attention |-> b.use_flash_attention,
      attention_dropout |-> b.attention_dropout,
      intermediate_size |-> Some(b.intermediate_size),
      hidden_dropout |-> b.hidden_dropout,
      max_position_embeddings |-> b.max_position_embeddings ]

\* Variant: the caller's keywords are applied before the preset keys.
get_dual_supervision_config_PresetLast(base, kw) ==
    IF base = None
    THEN Merge(kw, DualSupervisionParams)
    ELSE Merge(BaseConfigDict(base[1]), Merge(kw, DualSupervisionParams))

\* The keywords get_dual_supervision_config hands to the constructor;
\* base is None or Some(record).
get_dual_supervision_config(base, kw) ==
    IF base = None
    THEN Merge(DualSupervisionParams, kw)
    ELSE Merge(BaseConfigDict(base[1]), Merge(DualSupervisionParams, kw))

get_enhanced_flow_matching_config ==
    FlowMatchingConfig([alignment_loss_weight |-> Frac(1, 10),
                        temporal_loss_weight |-> Frac(5, 100),
                        use_progressive_training |-> TRUE,
                        schedule_type |-> "cosine"])

get_dual_supervision_flow_matching_config ==
    FlowMatchingConfig([sigma_min |-> Frac(1, 10000), sigma_max |-> Frac(1, 1),
                        prediction_type |-> "v_prediction",
                        schedule_type |-> "linear",
                        alignment_loss_weight |-> Frac(15, 100),
                        temporal_loss_weight |-> Frac(5, 100),
                        use_progressive_training |-> TRUE,
                        regularization_weight |-> Frac(1, 100)])

\* --------------------------------------------- cross-config validation
\* Variant: the EVA check compares against the flow record's clip_dim.
validate_config_compatibility_WrongField(model_config, flow_config) ==
    IF ~(model_config.in_channels = flow_config.clip_dim)
         THEN <<"Model input channels must match flow CLIP dim",
                model_config.in_channels, flow_config.clip_dim>>
    ELSE IF ~(model_config.eva_embedding_size = flow_config.clip_dim)
         THEN <<"Model EVA size must match flow EVA dim",
                model_config.eva_embedding_size, flow_config.eva_dim>>
    ELSE IF ~(model_config.learn_sigma = FALSE)
         THEN <<"Model must use flow matching (learn_sigma=False)">>
    ELSE Ok

\* The first failing assertion of validate_config_compatibility, Ok if none.
validate_config_compatibility(model_config, flow_config) ==
    IF ~(model_config.in_channels = flow_config.clip_dim)
         THEN <<"Model input channels must match flow CLIP dim",
                model_config.in_channels, flow_config.clip_dim>>
    ELSE IF ~(model_config.eva_embedding_size = flow_config.eva_dim)
         THEN <<"Model EVA size must match flow EVA dim",
                model_config.eva_embedding_size, flow_config.eva_dim>>
    ELSE IF ~(model_config.learn_sigma = FALSE)
         THEN <<"Model must use flow matching (learn_sigma=False)">>
    ELSE Ok

\* --------------------------------------------------------------- presets
\* The module-level singletons as built when the module is loaded.
BLIP3O_SMALL == get_small_blip3o_config
BLIP3O_DEFAULT == get_default_blip3o_config
BLIP3O_LARGE == get_large_blip3o_config
BLIP3O_DUAL_SUPERVISION == BLIP3oDiTConfig(get_dual_supervision_config(None, <<>>))
FLOW_MATCHING_DUAL_SUPERVISION == get_dual_supervision_flow_matching_config
FLOW_MATCHING_ENHANCED == get_enhanced_flow_matching_config

\* Variant: "default" and "large" point at each other's singleton.
PresetsDict_Crossed ==
    << <<"small", "BLIP3O_SMALL">>, <<"default", "BLIP3O_LARGE">>,
       <<"large", "BLIP3O_DEFAULT">>, <<"dual_supervision", "BLIP3O_DUAL_SUPERVISION">> >>

\* The presets dict of get_preset_config, in insertion order: key, singleton.
PresetsDict ==
    << <<"small", "BLIP3O_SMALL">>, <<"default", "BLIP3O_DEFAULT">>,
       <<"large", "BLIP3O_LARGE">>, <<"dual_supervision", "BLIP3O_DUAL_SUPERVISION">> >>

PresetKeys == [i \in DOMAIN PresetsDict |-> PresetsDict[i][1]]

Singletons == {PresetsDict[i][2] : i \in DOMAIN PresetsDict}

\* get_preset_config: the singleton returned, or the ValueError and its message
\* (the unknown name and the joined keys).
get_preset_config(preset_name) ==
    IF ~(\E i \in DOMAIN PresetsDict : PresetsDict[i][1] = preset_name)
    THEN [status |-> "ValueError",
          error |-> <<"Unknown preset", preset_name, PresetKeys>>,
          value |-> "None"]
    ELSE [status |-> "ok", error |-> Ok,
          value |-> PresetsDict[CHOOSE i \in DOMAIN PresetsDict :
                                    PresetsDict[i][1] = preset_name][2]]

\* ---------------------------------------------------------------- inputs
\* Values a caller passes for each BLIP3oDiTConfig keyword.
ArchValues ==
    [ input_size |-> {16, 8},
      patch_size |-> {1, 2},
      in_channels |-> {1024, 768},
      dim |-> {384, 100, 0},
      n_layers |-> {8, 0},
      n_heads |-> {8, 7, 0},
      n_kv_heads |-> {None, Some(4), Some(0)},
      eva_embedding_size |-> {4096, 1024},
      mlp_hidden_dim |-> {1024, 0},
      mlp_num_layers |-> {2, 0},
      mlp_dropout |-> {Frac(0, 1), Frac(1, 1), Frac(3, 2), Frac(-1, 10)},
      mlp_activation |-> {"relu", "silu", "tanh"},
      learn_sigma |-> {FALSE, TRUE},
      _gradient_checkpointing |-> {FALSE},
      attention_dropout |-> {Frac(1, 2), Frac(3, 2)},
      intermediate_size |-> {None, Some(2048), Some(0)},
      hidden_dropout |-> {Frac(1, 2), Frac(-1, 10)} ]

\* Values a caller passes for each FlowMatchingConfig keyword.
FlowValues ==
    [ sigma_min |-> {Frac(0, 1), Frac(1, 1), Frac(-1, 10)},
      sigma_max |-> {Frac(10, 1), Frac(21, 2), Frac(1, 10000)},
      prediction_type |-> {"epsilon", "x_prediction"},
      schedule_type |-> {"cosine", "sigmoid", "exponential"},
      clip_dim |-> {768, 0},
      eva_dim |-> {1024, 0},
      min_timestep |-> {Frac(0, 1), Frac(999, 1000), Frac(-1, 10), Frac(3, 2)},
      max_timestep |-> {Frac(1, 1), Frac(11, 10), Frac(1, 1000), Frac(-1, 2)},
      alignment_loss_weight |-> {Frac(15, 100)} ]

\* Values a caller passes for each TrainingConfig keyword.
TrainingValues ==
    [ num_train_epochs |-> {1, 0},
      per_device_train_batch_size |-> {1, 0},
      learning_rate |-> {Frac(1, 10000), Frac(0, 1)},
      weight_decay |-> {Frac(0, 1), Frac(1, 1), Frac(3, 2), Frac(-1, 100)},
      gradient_accumulation_steps |-> {1, 0},
      global_loss_weight |-> {Frac(1, 1)} ]

\* Keywords a caller passes to get_dual_supervision_config.
DualValues ==
    [ mlp_hidden_dim |-> {1024}, dim |-> {512}, n_kv_heads |-> {None} ]

\* Keywords for the flow records of the cross-validation.
CompatFlowValues == [ clip_dim |-> {768}, eva_dim |-> {1024, 0} ]

\* The keyword mappings that name exactly the keys S, values[k] listing the
\* values of key k.
RECURSIVE KwOver(_, _)
KwOver(values, S) ==
    IF S = {} THEN {<<>>}
    ELSE LET k == CHOOSE x \in S : TRUE
         IN  {f @@ (k :> v) : f \in KwOver(values, S \ {k}), v \in values[k]}

\* All keyword mappings that name at most n of the keys.
Kwargs(values, n) ==
    UNION {KwOver(values, S) : S \in {T \in SUBSET (DOMAIN values) : Cardinality(T) <= n}}

ArchKwargs == Kwargs(ArchValues, MaxOverrides)
FlowKwargs == Kwargs(FlowValues, MaxOverrides)
TrainingKwargs == Kwargs(TrainingValues, MaxOverrides)
DualKwargs == Kwargs(DualValues, MaxOverrides)
CompatFlowKwargs == Kwargs(CompatFlowValues, 1)

\* Names the caller asks get_preset_config for.
PresetRequests == {"small", "default", "large", "dual_supervision", "bogus"}

\* --------------------------------------------------------------- state
\* The architecture record behind reference r.
Deref(r) == IF r = "own" THEN own[1] ELSE presets[r]

\* The two validation entry points a caller may run again on the same records.
Validations == {"_validate_config", "validate_config_compatibility"}

\* The record of a call; rep is 2 when the call is a validation that
\* directly follows a run of the same validation, and 1 otherwise.
Call(op, args, status, error, value) ==
    [op |-> op, args |-> args, status |-> status, error |-> error, value |-> value,
     rep |-> IF op \in Validations /\ last.op = op THEN 2 ELSE 1]

Raised(error) == IF error = Ok THEN "ok" ELSE "AssertionError"

\* The singletons right after the module is loaded.
LoadedPresets ==
    [s \in Singletons |->
        CASE s = "BLIP3O_SMALL" -> BLIP3O_SMALL
          [] s = "BLIP3O_DEFAULT" -> BLIP3O_DEFAULT
          [] s = "BLIP3O_LARGE" -> BLIP3O_LARGE
          [] s = "BLIP3O_DUAL_SUPERVISION" -> BLIP3O_DUAL_SUPERVISION]

Init ==
    /\ presets = LoadedPresets
    /\ own = None
    /\ model = "None"
    /\ flow = None
    /\ training = None
    /\ last = [op |-> "import", args |-> <<>>, status |-> "ok", error |-> Ok,
               value |-> "None", rep |-> 1]
    /\ nassign = 0

\* ------------------------------------------------------------- actions
\* A call op(args) that runs BLIP3oDiTConfig.__init__ with keywords kw:
\* the attributes are stored, _validate_config runs, the caller gets the
\* object or the AssertionError.
Construct(op, args, kw) ==
    LET c == BLIP3oDiTConfig(kw)
        error == _validate_config(c)
    IN  /\ own' = IF error = Ok THEN Some(c) ELSE None
        /\ model' = IF error = Ok THEN "own" ELSE "None"
        /\ last' = Call(op, args, Raised(error), error,
                        IF error = Ok THEN "own" ELSE "None")
        /\ UNCHANGED <<presets, flow, training, nassign>>

NewConfig(kw) == Construct("BLIP3oDiTConfig", kw, kw)

\* A call that runs the FlowMatchingConfig constructor and __post_init__.
ConstructFlow(op, kw) ==
    LET f == FlowMatchingConfig(kw)
        error == FlowPostInit(f)
    IN  /\ flow' = IF error = Ok THEN Some(f) ELSE None
        /\ last' = Call(op, kw, Raised(error), error, error = Ok)
        /\ UNCHANGED <<presets, own, model, training, nassign>>

NewFlow(kw) == ConstructFlow("FlowMatchingConfig", kw)

ConstructTraining(op, kw) ==
    LET t == TrainingConfig(kw)
        error == TrainingPostInit(t)
    IN  /\ training' = IF error = Ok THEN Some(t) ELSE None
        /\ last' = Call(op, kw, Raised(error), error, error = Ok)
        /\ UNCHANGED <<presets, own, model, flow, nassign>>

NewTraining(kw) == ConstructTraining("TrainingConfig", kw)

\* config._validate_config() on the record the caller holds.
ValidateConfig ==
    /\ model # "None"
    /\ LET error == _validate_config(Deref(model))
       IN  last' = Call("_validate_config", <<>>, Raised(error), error, "None")
    /\ UNCHANGED <<presets, own, model, flow, training, nassign>>

GetNumTokens ==
    /\ model # "None"
    /\ last.op # "get_num_tokens"
    /\ last' = Call("get_num_tokens", <<>>, "ok", Ok, get_num_tokens(Deref(model)))
    /\ UNCHANGED <<presets, own, model, flow, training, nassign>>

\* get_head_dim raises ZeroDivisionError when n_heads is 0.
GetHeadDim ==
    /\ model # "None"
    /\ last.op # "get_head_dim"
    /\ last' = IF Deref(model).n_heads = 0
               THEN Call("get_head_dim", <<>>, "ZeroDivisionError", <<"division by zero">>, "None")
               ELSE Call("get_head_dim", <<>>, "ok", Ok, get_head_dim(Deref(model)))
    /\ UNCHANGED <<presets, own, model, flow, training, nassign>>

\* get_dual_supervision_config(base_config, **kw); with_base passes the
\* record the caller holds as base_config.
GetDualSupervisionConfig(with_base, kw) ==
    /\ with_base => model # "None"
    /\ LET base == IF with_base THEN Some(Deref(model)) ELSE None
       IN  Construct("get_dual_supervision_config",
                     [base_config |-> base, kwargs |-> kw],
                     get_dual_supervision_config(base, kw))

GetDefaultBlip3oConfig == Construct("get_default_blip3o_config", <<>>, <<>>)

GetSmallBlip3oConfig ==
    Construct("get_small_blip3o_config", <<>>,
              [dim |-> 512, n_layers |-> 8, n_heads |-> 8,
               mlp_hidden_dim |-> 1024, mlp_num_layers |-> 2])

GetLargeBlip3oConfig ==
    Construct("get_large_blip3o_config", <<>>,
              [dim |-> 1024, n_layers |-> 24, n_heads |-> 16,
               mlp_hidden_dim |-> 4096, mlp_num_layers |-> 4])

\* The flow factories return records that pass __post_init__.
ReturnFlow(op, f) ==
    /\ flow' = Some(f)
    /\ last' = Call(op, <<>>, "ok", Ok, TRUE)
    /\ UNCHANGED <<presets, own, model, training, nassign>>

GetDefaultFlowMatchingConfig == ConstructFlow("get_default_flow_matching_config", <<>>)

GetEnhancedFlowMatchingConfig ==
    /\ FlowPostInit(get_enhanced_flow_matching_config) = Ok
    /\ ReturnFlow("get_enhanced_flow_matching_config", get_enhanced_flow_matching_config)

GetDualSupervisionFlowMatchingConfig ==
    /\ FlowPostInit(get_dual_supervision_flow_matching_config) = Ok
    /\ ReturnFlow("get_dual_supervision_flow_matching_config",
                  get_dual_supervision_flow_matching_config)

GetDefaultTrainingConfig == ConstructTraining("get_default_training_config", <<>>)

GetDualSupervisionTrainingConfig ==
    ConstructTraining("get_dual_supervision_training_config",
                      [learning_rate |-> Frac(5, 100000),
                       gradient_accumulation_steps |-> 6,
                       global_loss_weight |-> Frac(2, 1),
                       patch_loss_weight |-> Frac(1, 1),
                       flow_matching_loss_weight |-> Frac(1, 1),
                       metric_for_best_model |-> "eval_global_cosine_mean"])

\* get_preset_config(preset_name): the caller now holds the singleton itself.
GetPresetConfig(preset_name) ==
    LET r == get_preset_config(preset_name)
    IN  /\ model' = r.value
        /\ last' = Call("get_preset_config", preset_name, r.status, r.error, r.value)
        /\ UNCHANGED <<presets, own, flow, training, nassign>>

\* Variant: the learn_sigma check assigns False to the record instead of
\* comparing with it.
ValidateConfigCompatibility_Assigning ==
    /\ model # "None"
    /\ flow # None
    /\ LET error == validate_config_compatibility(Deref(model), flow[1])
       IN  last' = Call("validate_config_compatibility", <<>>, Raised(error), error,
                        error = Ok)
    /\ IF model = "own"
       THEN own' = Some([own[1] EXCEPT !.learn_sigma = FALSE]) /\ UNCHANGED presets
       ELSE presets' = [presets EXCEPT ![model].learn_sigma = FALSE] /\ UNCHANGED own
    /\ UNCHANGED <<model, flow, training, nassign>>

\* validate_config_compatibility(model_config, flow_config) on the records held.
ValidateConfigCompatibility ==
    /\ model # "None"
    /\ flow # None
    /\ LET error == validate_config_compatibility(Deref(model), flow[1])
       IN  last' = Call("validate_config_compatibility", <<>>, Raised(error), error,
                        error = Ok)
    /\ UNCHANGED <<presets, own, model, flow, training, nassign>>

\* Attributes a caller assigns on a record, and the values assigned.
ModelAttrs == {"eva_embedding_size", "in_channels", "learn_sigma"}

FlowAttrs == {"eva_dim", "clip_dim"}

AssignedValues(name) ==
    CASE name = "eva_embedding_size" -> {1024}
      [] name = "in_channels" -> {768}
      [] name = "learn_sigma" -> {TRUE}
      [] name = "eva_dim" -> {1024}
      [] name = "clip_dim" -> {768}

\* config.<name> = value on the architecture record the caller holds: the
\* object itself changes, a preset singleton included.
SetAttr(name, value) ==
    /\ model # "None"
    /\ nassign < MaxAssign
    /\ nassign' = nassign + 1
    /\ IF model = "own"
       THEN own' = Some([own[1] EXCEPT ![name] = value]) /\ UNCHANGED presets
       ELSE presets' = [presets EXCEPT ![model][name] = value] /\ UNCHANGED own
    /\ last' = Call("setattr", name, "ok", Ok, value)
    /\ UNCHANGED <<model, flow, training>>

\* flow_config.<name> = value on the flow record the caller holds.
SetFlowAttr(name, value) ==
    /\ flow # None
    /\ nassign < MaxAssign
    /\ nassign' = nassign + 1
    /\ flow' = Some([flow[1] EXCEPT ![name] = value])
    /\ last' = Call("setattr", name, "ok", Ok, value)
    /\ UNCHANGED <<presets, own, model, training>>

\* The caller drops the records it holds.
Drop ==
    /\ last.op # "del"
    /\ own' = None
    /\ model' = "None"
    /\ flow' = None
    /\ training' = None
    /\ last' = Call("del", <<>>, "ok", Ok, "None")
    /\ UNCHANGED <<presets, nassign>>

\* No record is held and no call is pending inspection.
Idle == last.op \in {"import", "del"}

\* Sessions that build one record with any keyword mapping of up to
\* MaxOverrides keys (or with a flow or training factory), query and
\* validate it, and drop it.
CtorNext ==
    \/ Idle /\ \E kw \in ArchKwargs : NewConfig(kw)
    \/ Idle /\ \E kw \in FlowKwargs : NewFlow(kw)
    \/ Idle /\ \E kw \in TrainingKwargs : NewTraining(kw)
    \/ Idle /\ GetSmallBlip3oConfig
    \/ Idle /\ GetLargeBlip3oConfig
    \/ Idle /\ GetEnhancedFlowMatchingConfig
    \/ Idle /\ GetDualSupervisionFlowMatchingConfig
    \/ Idle /\ GetDefaultTrainingConfig
    \/ Idle /\ GetDualSupervisionTrainingConfig
    \/ ValidateConfig
    \/ GetNumTokens
    \/ GetHeadDim
    \/ Drop

CtorSpec == Init /\ [][CtorNext]_vars

\* The architecture records as a caller drives them: presets, the merge
\* of get_dual_supervision_config, validation and attribute assignment.
Next ==
    \/ \E n \in PresetRequests : GetPresetConfig(n)
    \/ \E b \in BOOLEAN, kw \in DualKwargs : GetDualSupervisionConfig(b, kw)
    \/ ValidateConfig
    \/ \E name \in ModelAttrs : \E value \in AssignedValues(name) : SetAttr(name, value)

Spec == Init /\ [][Next]_vars

\* Cross-validation sessions: a preset or default architecture record
\* against flow records of several dimensions, either record changed by
\* attribute assignment.
CompatNext ==
    \/ \E n \in PresetRequests : GetPresetConfig(n)
    \/ GetDefaultBlip3oConfig
    \/ GetDefaultFlowMatchingConfig
    \/ \E kw \in CompatFlowKwargs : NewFlow(kw)
    \/ ValidateConfig
    \/ ValidateConfigCompatibility
    \/ \E name \in ModelAttrs : \E value \in AssignedValues(name) : SetAttr(name, value)
    \/ \E name \in FlowAttrs : \E value \in AssignedValues(name) : SetFlowAttr(name, value)

CompatSpec == Init /\ [][CompatNext]_vars

\* The life of the preset singletons after load: lookups, the factories
\* (get_dual_supervision_config on the record held, a preset included),
\* cross-validation and attribute assignment on the record held.
PresetNext ==
    \/ \E n \in PresetRequests : GetPresetConfig(n)
    \/ \E b \in BOOLEAN, kw \in DualKwargs : GetDualSupervisionConfig(b, kw)
    \/ GetDefaultBlip3oConfig
    \/ GetSmallBlip3oConfig
    \/ GetLargeBlip3oConfig
    \/ GetDefaultFlowMatchingConfig
    \/ ValidateConfigCompatibility
    \/ \E name \in ModelAttrs : \E value \in AssignedValues(name) : SetAttr(name, value)

PresetSpec == Init /\ [][PresetNext]_vars

\* ================================================================ claims
FlowArg(kw, k) == IF k \in DOMAIN kw THEN kw[k] ELSE FlowMatchingConfigDefaults[k]

TrainingArg(kw, k) == IF k \in DOMAIN kw THEN kw[k] ELSE TrainingConfigDefaults[k]

InUnit(x) == Frac(0, 1) <= x /\ x <= Frac(1, 1)

\* The documented invariants, read off the arguments of a constructor call.
ValidOverrides(kw) ==
    /\ ArchArg(kw, "dim") > 0
    /\ ArchArg(kw, "n_layers") > 0
    /\ ArchArg(kw, "n_heads") > 0
    /\ ArchArg(kw, "n_kv_heads") # None => ArchArg(kw, "n_kv_heads")[1] > 0
    /\ ArchArg(kw, "mlp_hidden_dim") > 0
    /\ ArchArg(kw, "mlp_num_layers") > 0
    /\ \E q \in 1..ArchArg(kw, "dim") : q * ArchArg(kw, "n_heads") = ArchArg(kw, "dim")
    /\ ArchArg(kw, "mlp_activation") \in {"gelu", "relu", "silu"}
    /\ InUnit(ArchArg(kw, "mlp_dropout"))
    /\ ArchArg(kw, "learn_sigma") = FALSE
    /\ ArchArg(kw, "in_channels") = 1024
    /\ ArchArg(kw, "eva_embedding_size") = 4096
    /\ ArchArg(kw, "patch_size") = 1
    /\ ArchArg(kw, "input_size") = 16

\* C1: every BLIP3oDiTConfig call whose arguments satisfy the documented
\* invariants returns a record; its n_kv_heads is n_heads when n_kv_heads was
\* absent or None, its intermediate_size is 4*dim when intermediate_size was
\* absent or None, get_num_tokens() is input_size squared and get_head_dim()
\* times n_heads is dim; the two queries return those values when called.
C1_ValidConstruction ==
    /\ (last.op = "BLIP3oDiTConfig" /\ ValidOverrides(last.args)) =>
          /\ last.status = "ok"
          /\ model = "own"
          /\ own # None
          /\ LET c == own[1]
                 kw == last.args
             IN  /\ ArchArg(kw, "n_kv_heads") = None => c.n_kv_heads = ArchArg(kw, "n_heads")
                 /\ ArchArg(kw, "intermediate_size") = None =>
                        c.intermediate_size = 4 * ArchArg(kw, "dim")
                 /\ get_num_tokens(c) = ArchArg(kw, "input_size") * ArchArg(kw, "input_size")
                 /\ get_head_dim(c) * ArchArg(kw, "n_heads") = ArchArg(kw, "dim")
    /\ last.op = "get_num_tokens" =>
          last.status = "ok" /\ last.value = Deref(model).input_size * Deref(model).input_size
    /\ last.op = "get_head_dim" =>
          last.status = "ok" /\ last.value * Deref(model).n_heads = Deref(model).dim

C1_Witness ==
    /\ last.op = "BLIP3oDiTConfig"
    /\ ValidOverrides(last.args)
    /\ DOMAIN last.args = {"dim", "n_kv_heads"}
    /\ last.args.n_kv_heads = None
    /\ last.args.dim = 384
    /\ last.status = "ok"
    /\ own[1].n_kv_heads = 12
    /\ own[1].intermediate_size = 1536

\* C2: a BLIP3oDiTConfig call with mlp_dropout, attention_dropout or
\* hidden_dropout outside [0,1] fails, and a TrainingConfig call with
\* weight_decay outside [0,1] fails; no record is returned.
C2_OutOfRangeRejected ==
    /\ (last.op = "BLIP3oDiTConfig"
        /\ \E k \in {"mlp_dropout", "attention_dropout", "hidden_dropout"} :
              ~InUnit(ArchArg(last.args, k))) =>
          last.status # "ok" /\ model = "None" /\ own = None
    /\ (last.op = "TrainingConfig" /\ ~InUnit(TrainingArg(last.args, "weight_decay"))) =>
          last.status # "ok" /\ training = None

\* C5: every BLIP3oDiTConfig whose construction succeeds has all its size
\* fields strictly positive, intermediate_size included.
C5_SizesPositive ==
    (last.op = "BLIP3oDiTConfig" /\ last.status = "ok") =>
        \A k \in {"dim", "n_layers", "n_heads", "n_kv_heads", "input_size", "patch_size",
                  "in_channels", "eva_embedding_size", "mlp_hidden_dim", "mlp_num_layers",
                  "intermediate_size"} : own[1][k] > 0

\* C7: a BLIP3oDiTConfig call with dim > 0, n_heads > 0 and dim not a
\* multiple of n_heads raises the assertion error and returns no record,
\* whatever the other arguments are.
C7_IndivisibleRejected ==
    (/\ last.op = "BLIP3oDiTConfig"
     /\ ArchArg(last.args, "dim") > 0
     /\ ArchArg(last.args, "n_heads") > 0
     /\ ~\E q \in 1..ArchArg(last.args, "dim") :
            q * ArchArg(last.args, "n_heads") = ArchArg(last.args, "dim")) =>
        last.status = "AssertionError" /\ model = "None" /\ own = None

C7_Witness ==
    /\ last.op = "BLIP3oDiTConfig"
    /\ DOMAIN last.args = {"dim", "n_heads"}
    /\ last.args.dim = 100
    /\ last.args.n_heads = 7
    /\ last.error = <<"dim must be divisible by n_heads", 100, 7>>
    /\ model = "None"

\* C8: mlp_activation outside {gelu, relu, silu} fails BLIP3oDiTConfig,
\* prediction_type outside {v_prediction, epsilon} and schedule_type outside
\* {linear, cosine, sigmoid} fail FlowMatchingConfig; with the value inside
\* its set, a failure is never the one of that field.
C8_CategoricalFields ==
    /\ last.op = "BLIP3oDiTConfig" =>
          /\ ArchArg(last.args, "mlp_activation") \notin {"gelu", "relu", "silu"} =>
                last.status = "AssertionError" /\ model = "None"
          /\ (ArchArg(last.args, "mlp_activation") \in {"gelu", "relu", "silu"}
              /\ last.status # "ok") => last.error[1] # "Unknown activation"
    /\ last.op = "FlowMatchingConfig" =>
          /\ FlowArg(last.args, "prediction_type") \notin {"v_prediction", "epsilon"} =>
                last.status = "AssertionError" /\ flow = None
          /\ FlowArg(last.args, "schedule_type") \notin {"linear", "cosine", "sigmoid"} =>
                last.status = "AssertionError" /\ flow = None
          /\ (FlowArg(last.args, "prediction_type") \in {"v_prediction", "epsilon"}
              /\ last.status # "ok") => last.error[1] # "Invalid prediction type"
          /\ (FlowArg(last.args, "schedule_type") \in {"linear", "cosine", "sigmoid"}
              /\ last.status # "ok") => last.error[1] # "Invalid schedule type"

C8_Witness ==
    /\ last.op = "FlowMatchingConfig"
    /\ DOMAIN last.args = {"schedule_type", "sigma_max"}
    /\ last.args.schedule_type = "exponential"
    /\ last.args.sigma_max = Frac(10, 1)
    /\ last.error = <<"Invalid schedule type", "exponential">>
    /\ flow = None

\* C9: a FlowMatchingConfig that was constructed has
\* 0 <= sigma_min < sigma_max <= 10 and 0 <= min_timestep < max_timestep <= 1;
\* construction fails when sigma_min = sigma_max, when sigma_max > 10, when
\* min_timestep = max_timestep and when a timestep bound is outside [0,1].
C9_FlowRanges ==
    /\ flow # None =>
          /\ 0 <= flow[1].sigma_min
          /\ flow[1].sigma_min < flow[1].sigma_max
          /\ flow[1].sigma_max <= Frac(10, 1)
          /\ 0 <= flow[1].min_timestep
          /\ flow[1].min_timestep < flow[1].max_timestep
          /\ flow[1].max_timestep <= Frac(1, 1)
    /\ last.op = "FlowMatchingConfig" =>
          /\ last.status = "ok" => flow # None /\ flow[1] = FlowMatchingConfig(last.args)
          /\ (\/ FlowArg(last.args, "sigma_min") = FlowArg(last.args, "sigma_max")
              \/ FlowArg(last.args, "sigma_max") > Frac(10, 1)
              \/ FlowArg(last.args, "min_timestep") = FlowArg(last.args, "max_timestep")
              \/ ~InUnit(FlowArg(last.args, "min_timestep"))
              \/ ~InUnit(FlowArg(last.args, "max_timestep"))) =>
                last.status = "AssertionError" /\ flow = None

C9_Witness ==
    /\ last.op = "FlowMatchingConfig"
    /\ DOMAIN last.args = {"sigma_min"}
    /\ last.args.sigma_min = FlowMatchingConfigDefaults.sigma_max
    /\ last.error = <<"Invalid sigma range", Frac(1, 1), Frac(1, 1)>>
    /\ flow = None

\* The value the constructor stores in field k when the keyword is absent.
ConstructorDefault(c, k) ==
    CASE k = "n_kv_heads" -> c.n_heads
      [] k = "intermediate_size" -> 4 * c.dim
      [] OTHER -> BLIP3oDiTConfigDefaults[k]

\* The value the constructor stores in field k for the keyword value v.
StoredFor(c, k, v) ==
    CASE k = "n_kv_heads" -> IF v = None THEN c.n_heads ELSE v[1]
      [] k = "intermediate_size" -> IF v = None THEN 4 * c.dim ELSE v[1]
      [] OTHER -> v

\* Record c follows the merge policy for caller keywords kw, with
\* fallback(k) the value of a field named neither by kw nor by the preset.
Merged(c, kw, fallback(_)) ==
    \A k \in ArchFields :
        c[k] = IF k \in DOMAIN kw THEN StoredFor(c, k, kw[k])
               ELSE IF k \in {"mlp_hidden_dim", "mlp_num_layers", "mlp_dropout",
                              "_gradient_checkpointing"}
               THEN [mlp_hidden_dim |-> 2048, mlp_num_layers |-> 3,
                     mlp_dropout |-> Frac(1, 10), _gradient_checkpointing |-> TRUE][k]
               ELSE fallback(k)

\* C3 as stated: in the record get_dual_supervision_config returns, with or
\* without base_config, a caller keyword wins over the preset keys and a
\* field named by neither takes the constructor's default.
C3_DefaultsFallback ==
    (last.op = "get_dual_supervision_config" /\ last.status = "ok") =>
        LET c == own[1]
            fallback(k) == ConstructorDefault(c, k)
        IN  Merged(c, last.args.kwargs, fallback)

\* C3 amended: a caller keyword wins over the preset keys; a field named by
\* neither takes the constructor's default when base_config is None and the
\* value the field has in base_config otherwise.
C3_MergePolicy ==
    (last.op = "get_dual_supervision_config" /\ last.status = "ok") =>
        LET c == own[1]
            base == last.args.base_config
            fallback(k) == IF base = None THEN ConstructorDefault(c, k) ELSE base[1][k]
        IN  Merged(c, last.args.kwargs, fallback)

C3_Witness ==
    /\ last.op = "get_dual_supervision_config"
    /\ last.status = "ok"
    /\ last.args.base_config # None
    /\ last.args.base_config[1].dim = 512
    /\ last.args.base_config[1].mlp_num_layers = 2
    /\ DOMAIN last.args.kwargs = {"mlp_hidden_dim", "n_kv_heads"}
    /\ own[1].dim = 512
    /\ own[1].mlp_hidden_dim = 1024
    /\ own[1].mlp_num_layers = 3

\* C4: validate_config_compatibility returns True exactly when in_channels
\* equals clip_dim, eva_embedding_size equals eva_dim and learn_sigma is
\* False; otherwise it raises the error of the first violated check in the
\* order channels, conditioning dimension, learn_sigma, and a dimension
\* error carries the two values that differ.
C4_Compatibility ==
    last.op = "validate_config_compatibility" =>
        LET m == Deref(model)
            f == flow[1]
        IN  /\ (last.status = "ok" /\ last.value = TRUE) <=>
                   (/\ m.in_channels = f.clip_dim
                    /\ m.eva_embedding_size = f.eva_dim
                    /\ m.learn_sigma = FALSE)
            /\ last.status \in {"ok", "AssertionError"}
            /\ m.in_channels # f.clip_dim =>
                   last.error = <<"Model input channels must match flow CLIP dim",
                                  m.in_channels, f.clip_dim>>
            /\ (m.in_channels = f.clip_dim /\ m.eva_embedding_size # f.eva_dim) =>
                   last.error = <<"Model EVA size must match flow EVA dim",
                                  m.eva_embedding_size, f.eva_dim>>
            /\ (m.in_channels = f.clip_dim /\ m.eva_embedding_size = f.eva_dim
                /\ m.learn_sigma # FALSE) =>
                   last.error = <<"Model must use flow matching (learn_sigma=False)">>

C4_Witness ==
    /\ last.op = "validate_config_compatibility"
    /\ last.status = "AssertionError"
    /\ Deref(model).eva_embedding_size = 1024
    /\ Deref(model).in_channels = 1024
    /\ flow[1].eva_dim = 4096
    /\ last.error = <<"Model EVA size must match flow EVA dim", 1024, 4096>>

\* C6: get_preset_config returns, for small, default, large and
\* dual_supervision, the singleton of that name, built at load time with
\* dim/n_layers/n_heads 512/8/8, 768/16/12, 1024/24/16 (and 768/16/12 with
\* the dual-supervision MLP); for any other name it returns nothing and
\* raises ValueError naming small, default, large, dual_supervision in order.
C6_PresetLookup ==
    last.op = "get_preset_config" =>
        LET Shape(c) == <<c.dim, c.n_layers, c.n_heads>>
        IN  /\ last.args = "small" =>
                  /\ last.status = "ok" /\ model = "BLIP3O_SMALL" /\ last.value = model
                  /\ Shape(BLIP3O_SMALL) = <<512, 8, 8>>
            /\ last.args = "default" =>
                  /\ last.status = "ok" /\ model = "BLIP3O_DEFAULT" /\ last.value = model
                  /\ Shape(BLIP3O_DEFAULT) = <<768, 16, 12>>
            /\ last.args = "large" =>
                  /\ last.status = "ok" /\ model = "BLIP3O_LARGE" /\ last.value = model
                  /\ Shape(BLIP3O_LARGE) = <<1024, 24, 16>>
            /\ last.args = "dual_supervision" =>
                  /\ last.status = "ok" /\ model = "BLIP3O_DUAL_SUPERVISION"
                  /\ last.value = model
                  /\ Shape(BLIP3O_DUAL_SUPERVISION) = <<768, 16, 12>>
                  /\ BLIP3O_DUAL_SUPERVISION.mlp_hidden_dim = 2048
            /\ last.args \notin {"small", "default", "large", "dual_supervision"} =>
                  /\ last.status = "ValueError"
                  /\ model = "None"
                  /\ last.error = <<"Unknown preset", last.args,
                                    <<"small", "default", "large", "dual_supervision">> >>

C6_Witness ==
    /\ last.op = "get_preset_config"
    /\ last.args = "large"
    /\ last.status = "ok"
    /\ model = "BLIP3O_LARGE"
    /\ presets[model].n_layers = 24

\* C10: a run of _validate_config or validate_config_compatibility leaves
\* every field of every record as it was, and a run that directly follows a
\* run of the same validation has the same outcome.
C10_ValidationIdempotent ==
    [][last'.op \in Validations =>
          /\ presets' = presets
          /\ own' = own
          /\ model' = model
          /\ flow' = flow
          /\ training' = training
          /\ last.op = last'.op =>
                /\ last'.status = last.status
                /\ last'.error = last.error
                /\ last'.value = last.value]_vars

C10_Witness ==
    /\ last.op = "validate_config_compatibility"
    /\ last.rep = 2
    /\ last.status = "AssertionError"
    /\ model = "BLIP3O_SMALL"
    /\ presets[model].learn_sigma = TRUE

\* C11: the preset records are read-only after load: whatever calls and
\* attribute assignments came before, the record get_preset_config(name)
\* returns has every field at its load-time value.
C11_PresetsReadOnly ==
    (last.op = "get_preset_config" /\ last.status = "ok") =>
        /\ model \in Singletons
        /\ Deref(model) = LoadedPresets[model]

\* The calls of the module alone (lookups, factories, validations) never
\* change a preset: a step that is not an attribute assignment leaves every
\* singleton as it was.
C11_CallsKeepPresets ==
    [][last'.op # "setattr" => presets' = presets]_vars

====
